---- MODULE Spec2Model ----
(***************************************************************************)
(* The Pay form of zap-desktop (app/components/Pay/Pay.js): a wizard over  *)
(* the steps address -> amount -> summary whose component state is changed *)
(* by handlePayReqChange, nextStep and previousStep, and whose             *)
(* componentDidUpdate submits the form when a classification flag is       *)
(* newly set.                                                              *)
(*                                                                         *)
(* One React update is modelled in two kinds of step: an event handler     *)
(* (which commits the state it set and leaves componentDidUpdate pending), *)
(* and ComponentDidUpdate (which runs against the previous props/state and *)
(* may itself set state, leaving a further componentDidUpdate pending).    *)
(* Events are taken only when no update is pending, as React runs the      *)
(* lifecycle synchronously.                                                *)
(*                                                                         *)
(* JavaScript null is modelled as FALSE for the two flags (the code only   *)
(* ever stores null or true in them) and as the string "null" for          *)
(* previousStep; an empty string stands for a missing (null) initialPayReq *)
(* since every test the code applies to it is a truthiness test.           *)
(***************************************************************************)
EXTENDS Integers, Sequences, FiniteSets

VARIABLES
    state,              \* this.state: currentStep, previousStep, isLn, isOnchain, invoice
    payReq,             \* form value 'payReq'
    amountCrypto,       \* form value 'amountCrypto' (0: empty)
    touched,            \* form fields marked touched
    initialPayReq,      \* props.initialPayReq
    routes,             \* props.routes: the total_fees of each route
    cryptoCurrency,     \* props.cryptoCurrency
    phase,              \* "mount": form just initialised; "update": componentDidUpdate pending; "idle"
    prevState,          \* the prevState argument of the pending componentDidUpdate
    prevInitialPayReq,  \* prevProps.initialPayReq of the pending componentDidUpdate
    calls,              \* callbacks and formApi.submitForm() invoked since the last event began
    evt                 \* the event being processed: its name and this.state when it began

vars == <<state, payReq, amountCrypto, touched, initialPayReq, routes, cryptoCurrency,
          phase, prevState, prevInitialPayReq, calls, evt>>

-----------------------------------------------------------------------------
(* Bounds of the model *)

\* Largest amount the user types into the amountCrypto field.
MaxAmount == 1
\* Longest route list the parent passes.
MaxRoutes == 2

-----------------------------------------------------------------------------
(* Values *)

Min(a, b) == IF a < b THEN a ELSE b
Max(a, b) == IF a > b THEN a ELSE b

\* getMinFee/getMaxFee return null for an empty route list.
NullFee == -1

Steps == {"address", "amount", "summary"}

\* The payment requests a user can enter: empty, neither a Lightning invoice nor
\* an address, an on-chain address, two decodable invoices, and a string that
\* passes isLn() and makes decodePayReq() throw.
PayReqs == {"", "junk", "addr", "lnA", "lnB", "lnBad"}

UndefinedInvoice == [kind |-> "undefined"]
NullInvoice == [kind |-> "null"]

\* isLn(payReq, chain, network) of lib/utils/crypto.
IsLnPayReq(p) == p \in {"lnA", "lnB", "lnBad"}

\* isOnchain(payReq, chain, network) of lib/utils/crypto.
IsOnchainPayReq(p) == p = "addr"

\* decodePayReq(payReq) throws.
DecodeThrows(p) == p = "lnBad"

\* decodePayReq(payReq): the decoded invoice.
DecodePayReq(p) ==
    IF p = "lnA"
    THEN [kind |-> "invoice", payeeNodeKey |-> "nodeA", satoshis |-> 1]
    ELSE [kind |-> "invoice", payeeNodeKey |-> "nodeB", satoshis |-> 150]

\* if (invoice): an invoice object is truthy, null and undefined are not.
Truthy(inv) == inv.kind = "invoice"

\* props.onchainFees
OnchainFees == [fastestFee |-> 3, halfHourFee |-> 2, hourFee |-> 1]

CryptoCurrencies == {"sats", "bits"}

\* convert(cryptoCurrency, 'sats', amount) of lib/utils/btc.
ConvertToSats(currency, amount) == IF currency = "bits" THEN amount * 100 ELSE amount

RECURSIVE SeqMax(_)
SeqMax(s) == IF Len(s) = 1 THEN s[1] ELSE Max(s[1], SeqMax(Tail(s)))

RECURSIVE SeqMin(_)
SeqMin(s) == IF Len(s) = 1 THEN s[1] ELSE Min(s[1], SeqMin(Tail(s)))

\* getMaxFee(routes) and getMinFee(routes) of lib/utils/crypto.
GetMaxFee(rs) == IF Len(rs) = 0 THEN NullFee ELSE SeqMax(rs)
GetMinFee(rs) == IF Len(rs) = 0 THEN NullFee ELSE SeqMin(rs)

\* getFeeRange(routes)
GetFeeRange(rs) == [min |-> GetMinFee(rs), max |-> GetMaxFee(rs)]

\* The total_fees a route can have.
RouteFees == {1, 2}
RouteLists == UNION {[1..n -> RouteFees] : n \in 0..MaxRoutes}
Amounts == 0..MaxAmount
Balances == {0, 1, 100}

-----------------------------------------------------------------------------
(* Component state *)

InitialState ==
    [currentStep |-> "address", previousStep |-> "null",
     isLn |-> FALSE, isOnchain |-> FALSE, invoice |-> UndefinedInvoice]

\* steps() with the amount step also enabled for a Lightning invoice.
StepsOfAmountForLn(st) ==
    IF st.isLn \/ st.isOnchain THEN <<"address", "amount", "summary">> ELSE <<"address">>

\* steps(): the enabled form steps.
StepsOf(st) ==
    IF st.isLn THEN <<"address", "summary">>
    ELSE IF st.isOnchain THEN <<"address", "amount", "summary">>
    ELSE <<"address">>

\* Array.prototype.indexOf, 0-based, -1 when absent.
IndexOf(list, x) ==
    IF \E i \in 1..Len(list) : list[i] = x
    THEN (CHOOSE i \in 1..Len(list) : list[i] = x) - 1
    ELSE -1

\* list[i] with a 0-based index: undefined outside the array.
At(list, i) == IF i \in 0..(Len(list) - 1) THEN list[i + 1] ELSE "undefined"

\* a !== b for a string a and a number b: operands of different types are never
\* strictly equal.
StrictNotEqual(a, b) == a.type # b.type \/ a.val # b.val
JsString(s) == [type |-> "string", val |-> s]
JsNumber(n) == [type |-> "number", val |-> n]

\* previousStep() without the clamp to the first step.
PreviousStepIndexUnclamped(st) == IndexOf(StepsOf(st), st.currentStep) - 1

\* previousStep(): the index computed at line 250.
PreviousStepIndex(st) == Max(IndexOf(StepsOf(st), st.currentStep) - 1, 0)

\* previousStep(): whether setState is called (line 251).
PreviousStepSetsState(st) ==
    StrictNotEqual(JsString(st.currentStep), JsNumber(PreviousStepIndex(st)))

\* previousStep(): this.state after the call.
PreviousStepState(st) ==
    IF PreviousStepSetsState(st)
    THEN [st EXCEPT !.currentStep = At(StepsOf(st), PreviousStepIndex(st)),
                    !.previousStep = st.currentStep]
    ELSE st

\* nextStep(): the index computed at line 261.
NextStepIndex(st) ==
    Min(IndexOf(StepsOf(st), st.currentStep) + 1, Len(StepsOf(st)) - 1)

\* nextStep(): whether setState is called (line 262).
NextStepSetsState(st) ==
    StrictNotEqual(JsString(st.currentStep), JsNumber(NextStepIndex(st)))

\* nextStep(): this.state after the call.
NextStepState(st) ==
    IF NextStepSetsState(st)
    THEN [st EXCEPT !.currentStep = At(StepsOf(st), NextStepIndex(st)),
                    !.previousStep = st.currentStep]
    ELSE st

\* handlePayReqChange() whose catch block does not return.
HandlePayReqChangeNoReturn(p) == TRUE

\* handlePayReqChange(): whether it reaches setState (it returns early when
\* decodePayReq throws).
HandlePayReqChangeSetsState(p) == ~(IsLnPayReq(p) /\ DecodeThrows(p))

\* handlePayReqChange() setting only the flag it found, without starting from
\* the all-null state object of lines 273-277.
HandlePayReqChangeStateNoReset(st, p) ==
    IF IsLnPayReq(p)
    THEN [st EXCEPT !.isLn = TRUE,
                    !.invoice = IF DecodeThrows(p) THEN NullInvoice ELSE DecodePayReq(p)]
    ELSE IF IsOnchainPayReq(p)
         THEN [st EXCEPT !.isOnchain = TRUE, !.invoice = NullInvoice]
         ELSE [st EXCEPT !.isLn = FALSE, !.isOnchain = FALSE, !.invoice = NullInvoice]

\* handlePayReqChange(): this.state once its setState (line 297) is applied, for
\* the payReq value p.
HandlePayReqChangeState(st, p) ==
    IF IsLnPayReq(p)
    THEN [st EXCEPT !.isLn = TRUE, !.isOnchain = FALSE,
                    !.invoice = IF DecodeThrows(p) THEN NullInvoice ELSE DecodePayReq(p)]
    ELSE IF IsOnchainPayReq(p)
         THEN [st EXCEPT !.isLn = FALSE, !.isOnchain = TRUE, !.invoice = NullInvoice]
         ELSE [st EXCEPT !.isLn = FALSE, !.isOnchain = FALSE, !.invoice = NullInvoice]

\* handlePayReqChange(): this.state after the call.
HandlePayReqChange(st, p) ==
    IF HandlePayReqChangeSetsState(p) THEN HandlePayReqChangeState(st, p) ELSE st

\* handleChange(formState): whether it calls handlePayReqChange (line 309).
HandleChangeCalls(st, ipr, p) ==
    st.currentStep = "address" /\ st.previousStep = "null" /\ ipr # "" /\ p # ""

-----------------------------------------------------------------------------
(* The form *)

\* The payReq field: required, and validated as a Lightning invoice or address.
PayReqFieldValid(p) ==
    /\ p # ""
    /\ \/ IsLnPayReq(p) /\ ~DecodeThrows(p)
       \/ ~IsLnPayReq(p) /\ IsOnchainPayReq(p)

\* The amountCrypto field: rendered only for an on-chain address, disabled on the
\* address step, required otherwise.
AmountFieldValid(st, a) ==
    (st.isOnchain /\ st.currentStep # "address") => a # 0

\* formApi.submitForm() calls onSubmit only when no field has an error.
FormValid(st, p, a) == PayReqFieldValid(p) /\ AmountFieldValid(st, a)

\* formState.pristine
FormPristine == touched = {} /\ payReq = "" /\ amountCrypto = 0

\* onSubmit() with the two branches of the conditional swapped.
PaymentCallSwapped(st, p, a) ==
    IF ~st.isOnchain
    THEN [fn |-> "sendCoins", value |-> a, addr |-> p, currency |-> cryptoCurrency,
          satPerByte |-> OnchainFees.fastestFee]
    ELSE [fn |-> "payInvoice", payReq |-> p, feeLimit |-> GetMaxFee(routes)]

\* onSubmit(values): the backend call it makes on the summary step.
PaymentCall(st, p, a) ==
    IF st.isOnchain
    THEN [fn |-> "sendCoins", value |-> a, addr |-> p, currency |-> cryptoCurrency,
          satPerByte |-> OnchainFees.fastestFee]
    ELSE [fn |-> "payInvoice", payReq |-> p, feeLimit |-> GetMaxFee(routes)]

\* onSubmit(values): the calls it adds.
OnSubmitCalls(st, p, a) ==
    IF st.currentStep = "summary" THEN <<PaymentCall(st, p, a)>> ELSE <<>>

\* onSubmit(values): whether it sets state (through nextStep).
OnSubmitSetsState(st) == st.currentStep # "summary" /\ NextStepSetsState(st)

\* onSubmit(values): this.state after the call.
OnSubmitState(st) == IF st.currentStep = "summary" THEN st ELSE NextStepState(st)

\* formApi.submitForm(): the calls made, for the form values p and a.
SubmitFormCalls(st, p, a) ==
    <<[fn |-> "submitForm"]>> \o (IF FormValid(st, p, a) THEN OnSubmitCalls(st, p, a) ELSE <<>>)

-----------------------------------------------------------------------------
(* render().  The props that only render() reads (isProcessing,             *)
(* isQueryingRoutes, channelBalance, walletBalance) are parameters of its   *)
(* operators: the record pr.                                                *)

RenderProps ==
    [isProcessing : BOOLEAN, isQueryingRoutes : BOOLEAN,
     channelBalance : Balances, walletBalance : Balances]

\* hasRoute (lines 643-649)
HasRoute ==
    ~(/\ state.isLn
      /\ state.currentStep = "summary"
      /\ (GetFeeRange(routes).min = NullFee \/ GetFeeRange(routes).max = NullFee))

\* hasEnoughFunds with strict comparisons.
HasEnoughFundsStrict(pr) ==
    IF state.isLn /\ Truthy(state.invoice)
    THEN state.invoice.satoshis < pr.channelBalance
    ELSE IF state.isOnchain
         THEN ConvertToSats(cryptoCurrency, amountCrypto) < pr.walletBalance
         ELSE TRUE

\* hasEnoughFunds (lines 652-658)
HasEnoughFunds(pr) ==
    IF state.isLn /\ Truthy(state.invoice)
    THEN state.invoice.satoshis <= pr.channelBalance
    ELSE IF state.isOnchain
         THEN ConvertToSats(cryptoCurrency, amountCrypto) <= pr.walletBalance
         ELSE TRUE

\* The isLn that renderSummary() tests at line 560: the function imported at
\* line 6, since line 517 takes only currentStep and isOnchain from this.state.
IsLnInRenderSummary == [type |-> "function"]

\* if (v): a function object is truthy.
TruthyValue(v) == v.type = "function" \/ (v.type = "boolean" /\ v.val)

\* renderSummary(): the summary component rendered, "none" when the Transition
\* shows nothing (off the summary step) or render() returns undefined.
RenderedSummary ==
    IF state.currentStep # "summary" THEN "none"
    ELSE IF state.isOnchain THEN "PaySummaryOnChain"
    ELSE IF TruthyValue(IsLnInRenderSummary) THEN "PaySummaryLightning"
    ELSE "none"

\* The 'no route' message is rendered (lines 699-705).
ShowsNoRoute(pr) ==
    state.currentStep = "summary" /\ ~pr.isQueryingRoutes /\ ~HasRoute

\* The 'not enough funds' message is rendered (lines 707-712).
ShowsNotEnoughFunds(pr) == state.currentStep = "summary" /\ ~HasEnoughFunds(pr)

\* The disabled prop of PayButtons (lines 715-720).
ButtonsDisabled(pr) ==
    \/ FormPristine
    \/ ~FormValid(state, payReq, amountCrypto)
    \/ pr.isProcessing
    \/ (state.currentStep = "summary" /\ (~HasRoute \/ ~HasEnoughFunds(pr)))

-----------------------------------------------------------------------------
(* Initial state *)

Init ==
    /\ state = InitialState
    /\ initialPayReq \in PayReqs
    /\ payReq = initialPayReq
    /\ amountCrypto = 0
    /\ touched = {}
    /\ routes = <<>>
    /\ cryptoCurrency \in CryptoCurrencies
    /\ phase = IF initialPayReq = "" THEN "idle" ELSE "mount"
    /\ prevState = InitialState
    /\ prevInitialPayReq = initialPayReq
    /\ calls = <<>>
    /\ evt = [op |-> "none", before |-> InitialState]

-----------------------------------------------------------------------------
(* Events.  An event handler that calls setState leaves componentDidUpdate     *)
(* pending with the state it started from as prevState; a props change always  *)
(* leaves it pending, with the previous props.                                 *)

Idle == phase = "idle"

\* The field's onChange followed by the form's onChange: handlePayReqChange(),
\* then handleChange(formState), for the payReq value p.
PayReqChangeSetsState(st, ipr, p) ==
    HandlePayReqChangeSetsState(p)
        \/ (HandleChangeCalls(st, ipr, p) /\ HandlePayReqChangeSetsState(p))

\* Form mounted with an initialPayReq: the form's first onChange, handleChange().
Mount ==
    /\ phase = "mount"
    /\ LET sets == HandleChangeCalls(state, initialPayReq, payReq)
                       /\ HandlePayReqChangeSetsState(payReq)
       IN /\ state' = IF sets THEN HandlePayReqChange(state, payReq) ELSE state
          /\ phase' = IF sets THEN "update" ELSE "idle"
          /\ prevState' = state
    /\ prevInitialPayReq' = initialPayReq
    /\ calls' = <<>>
    /\ evt' = [op |-> "mount", before |-> state]
    /\ UNCHANGED <<payReq, amountCrypto, touched, initialPayReq, routes, cryptoCurrency>>

\* The user changes the payReq field (read-only unless on the address step).
ChangePayReq(v) ==
    /\ Idle
    /\ state.currentStep = "address"
    /\ v # payReq
    /\ payReq' = v
    /\ LET sets == PayReqChangeSetsState(state, initialPayReq, v)
       IN /\ state' = IF sets THEN HandlePayReqChange(state, v) ELSE state
          /\ phase' = IF sets THEN "update" ELSE "idle"
          /\ prevState' = state
    /\ prevInitialPayReq' = initialPayReq
    /\ calls' = <<>>
    /\ evt' = [op |-> "payReq", before |-> state]
    /\ UNCHANGED <<amountCrypto, touched, initialPayReq, routes, cryptoCurrency>>

\* The user changes the amountCrypto field (shown, and enabled, on the amount
\* step of an on-chain payment); the form's onChange runs handleChange().
ChangeAmountCrypto(a) ==
    /\ Idle
    /\ state.isOnchain
    /\ state.currentStep = "amount"
    /\ a # amountCrypto
    /\ amountCrypto' = a
    /\ LET sets == HandleChangeCalls(state, initialPayReq, payReq)
                       /\ HandlePayReqChangeSetsState(payReq)
       IN /\ state' = IF sets THEN HandlePayReqChange(state, payReq) ELSE state
          /\ phase' = IF sets THEN "update" ELSE "idle"
          /\ prevState' = state
    /\ prevInitialPayReq' = initialPayReq
    /\ calls' = <<>>
    /\ evt' = [op |-> "amount", before |-> state]
    /\ UNCHANGED <<payReq, touched, initialPayReq, routes, cryptoCurrency>>

\* A field loses focus and is marked touched; the form's onChange runs
\* handleChange().
Blur(field) ==
    /\ Idle
    /\ field \notin touched
    /\ field = "amountCrypto" => (state.isOnchain /\ state.currentStep = "amount")
    /\ touched' = touched \cup {field}
    /\ LET sets == HandleChangeCalls(state, initialPayReq, payReq)
                       /\ HandlePayReqChangeSetsState(payReq)
       IN /\ state' = IF sets THEN HandlePayReqChange(state, payReq) ELSE state
          /\ phase' = IF sets THEN "update" ELSE "idle"
          /\ prevState' = state
    /\ prevInitialPayReq' = initialPayReq
    /\ calls' = <<>>
    /\ evt' = [op |-> "blur", before |-> state]
    /\ UNCHANGED <<payReq, amountCrypto, initialPayReq, routes, cryptoCurrency>>

\* The user submits the form: onSubmit(values) runs when the form is valid.
Submit ==
    /\ Idle
    /\ FormValid(state, payReq, amountCrypto)
    /\ state' = OnSubmitState(state)
    /\ phase' = IF OnSubmitSetsState(state) THEN "update" ELSE "idle"
    /\ prevState' = state
    /\ prevInitialPayReq' = initialPayReq
    /\ calls' = OnSubmitCalls(state, payReq, amountCrypto)
    /\ evt' = [op |-> "submit", before |-> state]
    /\ UNCHANGED <<payReq, amountCrypto, touched, initialPayReq, routes, cryptoCurrency>>

\* PayButtons calls the previousStep handler it was given.
PreviousStep ==
    /\ Idle
    /\ state' = PreviousStepState(state)
    /\ phase' = IF PreviousStepSetsState(state) THEN "update" ELSE "idle"
    /\ prevState' = state
    /\ prevInitialPayReq' = initialPayReq
    /\ calls' = <<>>
    /\ evt' = [op |-> "previousStep", before |-> state]
    /\ UNCHANGED <<payReq, amountCrypto, touched, initialPayReq, routes, cryptoCurrency>>

\* The parent passes another initialPayReq.
InitialPayReqChange(v) ==
    /\ Idle
    /\ v # initialPayReq
    /\ initialPayReq' = v
    /\ phase' = "update"
    /\ prevState' = state
    /\ prevInitialPayReq' = initialPayReq
    /\ calls' = <<>>
    /\ evt' = [op |-> "initialPayReq", before |-> state]
    /\ UNCHANGED <<state, payReq, amountCrypto, touched, routes, cryptoCurrency>>

\* The parent passes new routing information.
RoutesChange(rs) ==
    /\ Idle
    /\ rs # routes
    /\ routes' = rs
    /\ phase' = "update"
    /\ prevState' = state
    /\ prevInitialPayReq' = initialPayReq
    /\ calls' = <<>>
    /\ evt' = [op |-> "routes", before |-> state]
    /\ UNCHANGED <<state, payReq, amountCrypto, touched, initialPayReq, cryptoCurrency>>

\* handleCryptoCurrencyChange(value): setCryptoCurrency(value), after which the
\* parent passes the new cryptoCurrency.
CryptoCurrencyChange(c) ==
    /\ Idle
    /\ c # cryptoCurrency
    /\ cryptoCurrency' = c
    /\ phase' = "update"
    /\ prevState' = state
    /\ prevInitialPayReq' = initialPayReq
    /\ calls' = <<[fn |-> "setCryptoCurrency", key |-> c]>>
    /\ evt' = [op |-> "cryptoCurrency", before |-> state]
    /\ UNCHANGED <<state, payReq, amountCrypto, touched, initialPayReq, routes>>

-----------------------------------------------------------------------------
(* componentDidUpdate(prevProps, prevState) *)

\* Line 153: initialPayReq is set and differs from the previous props'.
InitialPayReqSet(ipr, prevIpr) == ipr # "" /\ ipr # prevIpr

\* Line 169: isOnchain is set and differs from the previous state's.
OnchainNewlySet(st, prev) == st.isOnchain /\ st.isOnchain # prev.isOnchain

\* Line 174 without the comparison with the previous state.
LnSet(st, prev) == st.isLn

\* Line 174: isLn is set and differs from the previous state's.
LnNewlySet(st, prev) == st.isLn /\ st.isLn # prev.isLn

ComponentDidUpdate ==
    /\ phase = "update"
    /\ LET \* lines 153-157: reset the form, set payReq, handlePayReqChange()
           propChanged == InitialPayReqSet(initialPayReq, prevInitialPayReq)
           p == IF propChanged THEN initialPayReq ELSE payReq
           a == IF propChanged THEN 0 ELSE amountCrypto
           setsA == propChanged /\ HandlePayReqChangeSetsState(p)
           \* lines 160-166: back on the address step, untouch every field
           untouch == state.currentStep # prevState.currentStep
                          /\ state.currentStep = "address"
           \* lines 169-171 and 174-181: submit when a flag is newly set
           submitC == OnchainNewlySet(state, prevState)
           submitD == LnNewlySet(state, prevState)
           submits == submitC \/ submitD
           onSubmitRuns == submits /\ FormValid(state, p, a)
           setsB == onSubmitRuns /\ OnSubmitSetsState(state)
           callsC == IF submitC THEN SubmitFormCalls(state, p, a) ELSE <<>>
           callsD == IF submitD
                     THEN SubmitFormCalls(state, p, a)
                              \o (IF Truthy(state.invoice)
                                  THEN <<[fn |-> "queryRoutes",
                                          payeeNodeKey |-> state.invoice.payeeNodeKey,
                                          satoshis |-> state.invoice.satoshis]>>
                                  ELSE <<>>)
                     ELSE <<>>
           \* the queued setState calls, merged in order
           s1 == IF setsA THEN HandlePayReqChange(state, p) ELSE state
           s2 == IF setsB
                 THEN [s1 EXCEPT !.currentStep = OnSubmitState(state).currentStep,
                                 !.previousStep = OnSubmitState(state).previousStep]
                 ELSE s1
       IN /\ payReq' = p
          /\ amountCrypto' = a
          /\ touched' = IF propChanged \/ untouch THEN {} ELSE touched
          /\ calls' = calls \o callsC \o callsD
          /\ state' = s2
          /\ phase' = IF setsA \/ setsB THEN "update" ELSE "idle"
    /\ prevState' = state
    /\ prevInitialPayReq' = initialPayReq
    /\ UNCHANGED <<initialPayReq, routes, cryptoCurrency, evt>>

-----------------------------------------------------------------------------

Next ==
    \/ Mount
    \/ \E v \in PayReqs : ChangePayReq(v)
    \/ \E a \in Amounts : ChangeAmountCrypto(a)
    \/ \E f \in {"payReq", "amountCrypto"} : Blur(f)
    \/ Submit
    \/ PreviousStep
    \/ \E v \in PayReqs : InitialPayReqChange(v)
    \/ \E rs \in RouteLists : RoutesChange(rs)
    \/ \E c \in CryptoCurrencies : CryptoCurrencyChange(c)
    \/ ComponentDidUpdate

Spec == Init /\ [][Next]_vars

TypeOK ==
    /\ state.currentStep \in Steps \cup {"undefined"}
    /\ state.previousStep \in Steps \cup {"null", "undefined"}
    /\ state.isLn \in BOOLEAN /\ state.isOnchain \in BOOLEAN
    /\ payReq \in PayReqs /\ initialPayReq \in PayReqs
    /\ amountCrypto \in Amounts
    /\ routes \in RouteLists
    /\ phase \in {"mount", "update", "idle"}
    /\ Len(calls) <= 4

-----------------------------------------------------------------------------
(* Properties *)

\* The calls of the current event that are made to the function fn.
CallsTo(fn) == {i \in 1..Len(calls) : calls[i].fn = fn}

\* C1: in every reachable state currentStep is one of 'address', 'amount' and
\* 'summary', and it is 'address' before the first event.
C1_CurrentStepIsAStep ==
    /\ state.currentStep \in Steps
    /\ evt.op = "none" => state.currentStep = "address"

\* C1 witness: previousStep() has taken the wizard from summary back to amount.
C1_Witness ==
    /\ evt.op = "previousStep"
    /\ evt.before.currentStep = "summary"
    /\ state.currentStep = "amount"

\* C2 as stated: once handlePayReqChange() has classified the payReq the user
\* entered, exactly one of isOnchain and isLn is set, whatever the payReq.
C2_ExactlyOneFlag ==
    (evt.op = "payReq" /\ HandlePayReqChangeSetsState(payReq))
        => (state.isLn # state.isOnchain)

\* C2 amended: the two flags are never both set, and once handlePayReqChange()
\* has classified the payReq, isLn alone is set for a Lightning invoice,
\* isOnchain alone for an on-chain address, and neither for any other value.
C2_FlagsFollowPayReq ==
    /\ ~(state.isLn /\ state.isOnchain)
    /\ (phase # "mount" /\ ~(IsLnPayReq(payReq) /\ DecodeThrows(payReq)))
           => /\ state.isLn <=> IsLnPayReq(payReq)
              /\ state.isOnchain <=> (~IsLnPayReq(payReq) /\ IsOnchainPayReq(payReq))

\* C2 witness: the user replaced an on-chain address by a value that is neither
\* an invoice nor an address, and handlePayReqChange() cleared both flags.
C2_Witness ==
    /\ evt.op = "payReq"
    /\ payReq = "junk"
    /\ evt.before.isOnchain
    /\ ~state.isLn /\ ~state.isOnchain

\* C3: whenever the user has entered a decodable Lightning invoice, once the
\* update is done isLn is set, invoice is the decoded invoice and
\* queryRoutes(invoice.payeeNodeKey, invoice.satoshis) has been called for it.
C3_InvoiceQueriesRoutes ==
    (phase = "idle" /\ evt.op = "payReq" /\ IsLnPayReq(payReq) /\ ~DecodeThrows(payReq))
        => /\ state.isLn
           /\ state.invoice = DecodePayReq(payReq)
           /\ \E i \in CallsTo("queryRoutes") :
                  /\ calls[i].payeeNodeKey = DecodePayReq(payReq).payeeNodeKey
                  /\ calls[i].satoshis = DecodePayReq(payReq).satoshis

\* C4: when the payReq passes isLn() and decodePayReq() throws, whether typed
\* or passed as initialPayReq, the component state is what it was before the
\* change, no update follows and nothing is called.
C4_DecodeFailureAborts ==
    LET typed == evt.op = "payReq" /\ payReq = "lnBad"
        passed == evt.op = "initialPayReq" /\ initialPayReq = "lnBad"
    IN /\ typed => (state = evt.before /\ calls = <<>> /\ phase = "idle")
       /\ passed => (state = evt.before /\ calls = <<>>)

\* C4 witness: the user replaced an on-chain address by an undecodable invoice
\* and the on-chain classification is still in place.
C4_Witness ==
    /\ evt.op = "payReq"
    /\ payReq = "lnBad"
    /\ evt.before.isOnchain
    /\ state.isOnchain

\* C5: onSubmit on the summary step makes exactly one backend call and leaves
\* the step alone: sendCoins({value: amountCrypto, addr: payReq, currency:
\* cryptoCurrency, satPerByte: onchainFees.fastestFee}) when isOnchain is set,
\* otherwise payInvoice(payReq, feeLimit) with feeLimit the largest fee of
\* routes.  On any other step it makes no backend call and only moves the step.
\* The first conjunct is the user's submit, the second the submit made by
\* componentDidUpdate.
C5_OnSubmit ==
    LET MaxOfRoutes(f) ==
            IF routes = <<>>
            THEN f = NullFee
            ELSE /\ \E i \in 1..Len(routes) : routes[i] = f
                 /\ \A i \in 1..Len(routes) : routes[i] <= f
        Expected(c, onchain) ==
            IF onchain
            THEN c = [fn |-> "sendCoins", value |-> amountCrypto, addr |-> payReq,
                      currency |-> cryptoCurrency, satPerByte |-> OnchainFees.fastestFee]
            ELSE c.fn = "payInvoice" /\ c.payReq = payReq /\ MaxOfRoutes(c.feeLimit)
        payments == CallsTo("sendCoins") \cup CallsTo("payInvoice")
    IN /\ evt.op = "submit" =>
              IF evt.before.currentStep = "summary"
              THEN /\ Len(calls) = 1
                   /\ Expected(calls[1], evt.before.isOnchain)
                   /\ state = evt.before
              ELSE /\ calls = <<>>
                   /\ state.currentStep # evt.before.currentStep
                   /\ state = [evt.before EXCEPT !.currentStep = state.currentStep,
                                                 !.previousStep = evt.before.currentStep]
       /\ evt.op # "submit" =>
              \A i \in payments :
                  /\ i > 1 /\ calls[i - 1].fn = "submitForm"
                  /\ state.currentStep = "summary"
                  /\ Expected(calls[i], state.isOnchain)

\* C5 witness: the user submitted a Lightning payment on the summary step with
\* two routes of different fees, and payInvoice was called.
C5_Witness ==
    /\ evt.op = "submit"
    /\ evt.before.currentStep = "summary"
    /\ Len(calls) = 1 /\ calls[1].fn = "payInvoice"
    /\ Len(routes) = 2 /\ routes[1] # routes[2]

\* C6: once a new initialPayReq (here: one that is a valid invoice or address,
\* the case the claim is made for first of all) has been processed, the form is in
\* the state a fresh form reaches when the user enters that value on the
\* address step: the payReq field holds it, the classification is that of the
\* value, the wizard stands where the fresh form's automatic submit leaves it,
\* and no payment has been made.
C6_InitialPayReqAsNew ==
    LET entered == HandlePayReqChange(InitialState, initialPayReq)
        fresh == IF /\ OnchainNewlySet(entered, InitialState)
                        \/ LnNewlySet(entered, InitialState)
                    /\ FormValid(entered, initialPayReq, 0)
                 THEN OnSubmitState(entered)
                 ELSE entered
    IN (phase = "idle" /\ evt.op = "initialPayReq" /\ PayReqFieldValid(initialPayReq))
           => /\ payReq = initialPayReq
              /\ state.isLn = fresh.isLn
              /\ state.isOnchain = fresh.isOnchain
              /\ Truthy(state.invoice) = Truthy(fresh.invoice)
              /\ state.currentStep = fresh.currentStep
              /\ CallsTo("sendCoins") \cup CallsTo("payInvoice") = {}

\* C7: whatever the props, the buttons are disabled when isProcessing is true
\* and, on the summary step, when there is no route (isLn and a fee range with
\* a null bound) or not enough funds (isLn: invoice.satoshis > channelBalance;
\* isOnchain: the amount in satoshis > walletBalance); the funds message shows
\* exactly on the summary step with not enough funds, the route message exactly
\* on the summary step with no route and isQueryingRoutes false.
C7_DisabledAndMessages ==
    \A pr \in RenderProps :
        LET summary == state.currentStep = "summary"
            noRoute == /\ state.isLn
                       /\ \/ GetFeeRange(routes).min = NullFee
                          \/ GetFeeRange(routes).max = NullFee
            notEnough ==
                \/ state.isLn /\ state.invoice.satoshis > pr.channelBalance
                \/ /\ ~state.isLn /\ state.isOnchain
                   /\ amountCrypto * (IF cryptoCurrency = "bits" THEN 100 ELSE 1)
                          > pr.walletBalance
        IN /\ pr.isProcessing => ButtonsDisabled(pr)
           /\ (summary /\ (noRoute \/ notEnough)) => ButtonsDisabled(pr)
           /\ ShowsNotEnoughFunds(pr) <=> (summary /\ notEnough)
           /\ ShowsNoRoute(pr) <=> (summary /\ noRoute /\ ~pr.isQueryingRoutes)

\* C7 witness: the summary step of an invoice of 150 satoshis with no route.
C7_Witness ==
    /\ phase = "idle"
    /\ state.currentStep = "summary"
    /\ state.isLn /\ state.invoice.satoshis = 150
    /\ routes = <<>>
    /\ \E pr \in RenderProps : ShowsNoRoute(pr) /\ ShowsNotEnoughFunds(pr)

C9_AutoSubmitOnce ==
    LET entered == evt.op \in {"payReq", "mount"} /\ evt.before.currentStep = "address"
        newlySet == \/ state.isOnchain /\ ~evt.before.isOnchain
                    \/ state.isLn /\ ~evt.before.isLn
    IN (entered /\ newlySet)
           => /\ Cardinality(CallsTo("submitForm")) <= 1
              /\ CallsTo("sendCoins") \cup CallsTo("payInvoice") = {}
              /\ CallsTo("submitForm") = {}
                     => (phase = "update" /\ state.currentStep = "address")
              /\ CallsTo("submitForm") # {}
                     => /\ state.currentStep = IF state.isLn THEN "summary" ELSE "amount"
                        /\ state.previousStep = "address"
              /\ phase = "idle" => Cardinality(CallsTo("submitForm")) = 1

\* C9 witness: the user replaced an on-chain address by an invoice on the
\* address step and the update has come to rest on the summary step.
C9_Witness ==
    /\ phase = "idle"
    /\ evt.op = "payReq"
    /\ evt.before.currentStep = "address"
    /\ evt.before.isOnchain
    /\ state.isLn
    /\ state.currentStep = "summary"

\* C10: previousStep() and nextStep() leave this.state as it is, and cause no
\* update, when the step they compute is the current step.
C10_NoOpAtTheEnds ==
    LET before == evt.before
        backTarget == At(StepsOf(before), PreviousStepIndex(before))
        nextTarget == At(StepsOf(before), NextStepIndex(before))
    IN /\ (evt.op = "previousStep" /\ backTarget = before.currentStep)
              => (state = before /\ phase = "idle")
       /\ (evt.op = "submit" /\ before.currentStep # "summary"
               /\ nextTarget = before.currentStep)
              => (state = before /\ phase = "idle")

\* C11: on the summary step PaySummaryOnChain is rendered exactly when
\* state.isOnchain is set, PaySummaryLightning exactly when state.isLn is set,
\* and no summary when neither flag is set.
C11_SummaryFollowsFlags ==
    state.currentStep = "summary"
        => /\ (RenderedSummary = "PaySummaryOnChain") <=> state.isOnchain
           /\ (RenderedSummary = "PaySummaryLightning") <=> state.isLn
           /\ (~state.isOnchain /\ ~state.isLn) => RenderedSummary = "none"

====
